---- MODULE Spec2Model ----
(***************************************************************************)
(* Model of visgator/utils/torch.py: the Device selector and the padded    *)
(* batch containers Nested3DTensor (sequences, [N L D]) and Nested4DTensor *)
(* (images, [N C H W]).                                                    *)
(*                                                                         *)
(* A tensor is a record [shape, device, at]: `at` maps every 0-based index *)
(* tuple of the shape to the cell's value.  A container is a record        *)
(* [cls, _tensor, _sizes, _mask]; _mask is None until mask() stores it.    *)
(* A call returns Ok(value) or Raise(exception name).                      *)
(***************************************************************************)
EXTENDS Integers, Sequences, FiniteSets, TLC

VARIABLES
    tensors,    \* the list of per-sample tensors handed to from_tensors
    pad_value,  \* the pad_value handed to from_tensors
    batch,      \* the container from_tensors returned, None before the call
    derived,    \* the latest container returned by to() or flatten(), or None
    origin,     \* how `derived` was made: the call and its receiver
    last,       \* the latest call: its name, receiver ("class" for a
                \* classmethod), argument and result
    avail,      \* torch.cuda.device_count() of the host
    threads,    \* the threads reading batch.mask: each one's position in the
                \* property, its local `mask` and what it returned
    owner       \* the thread whose tensor self._mask refers to, 0 for none

vars ==
    <<tensors, pad_value, batch, derived, origin, last, avail, threads, owner>>

--------------------------------------------------------------------------
(* Bounds of the model *)

\* largest number of cells of a padded batch (N*L*D or N*C*H*W)
MaxNumel == 8
\* pad values are 0..MaxPad
MaxPad == 1
\* the host has 0..MaxDevices CUDA devices
MaxDevices == 3
\* threads 1..MaxThreads read the mask of one container
MaxThreads == 2

--------------------------------------------------------------------------
(* Python values *)

None == [none |-> TRUE]

Ok(v) == [ok |-> TRUE, val |-> v]

Raise(e) == [ok |-> FALSE, err |-> e]

Max2(a, b) == IF a >= b THEN a ELSE b

Min2(a, b) == IF a <= b THEN a ELSE b

\* max over a list of numbers, starting from 0 as the loops of the code do
RECURSIVE MaxOf(_)
MaxOf(s) == IF s = <<>> THEN 0 ELSE Max2(MaxOf(Tail(s)), Head(s))

--------------------------------------------------------------------------
(* Tensors *)

\* the index tuples of a tensor of the given shape (rank 2, 3 or 4)
Indices(shape) ==
    IF Len(shape) = 2 THEN (0 .. shape[1] - 1) \X (0 .. shape[2] - 1)
    ELSE IF Len(shape) = 3
    THEN (0 .. shape[1] - 1) \X (0 .. shape[2] - 1) \X (0 .. shape[3] - 1)
    ELSE (0 .. shape[1] - 1) \X (0 .. shape[2] - 1) \X (0 .. shape[3] - 1)
             \X (0 .. shape[4] - 1)

\* Tensor.copy_ broadcasts its source: every extent equals the target's or is 1
Broadcastable(src, dst) ==
    /\ Len(src) = Len(dst)
    /\ \A k \in 1 .. Len(src) : src[k] = dst[k] \/ src[k] = 1

\* the cell of `t` that copy_ writes at index ix of a target of t's rank
BroadcastAt(t, ix) ==
    t.at[[k \in 1 .. Len(ix) |-> IF t.shape[k] = 1 THEN 0 ELSE ix[k]]]

\* Tensor.to(device): the same cells on another device
TensorTo(t, device) == [t EXCEPT !.device = device]

\* same shape and same cells, wherever the two tensors live
SameCells(a, b) == a.shape = b.shape /\ a.at = b.at

--------------------------------------------------------------------------
(* Strings: sequences of one-character strings *)

Str_cpu == <<"c", "p", "u">>

Str_cuda == <<"c", "u", "d", "a">>

Digits == <<"0", "1", "2", "3", "4", "5", "6", "7", "8", "9">>

IsDigit(ch) == \E d \in 1 .. Len(Digits) : Digits[d] = ch

DigitValue(ch) == (CHOOSE d \in 1 .. Len(Digits) : Digits[d] = ch) - 1

\* str(k) of an integer k >= 0
RECURSIVE str_int(_)
str_int(k) ==
    IF k < Len(Digits) THEN <<Digits[k + 1]>>
    ELSE str_int(k \div Len(Digits)) \o <<Digits[(k % Len(Digits)) + 1]>>

\* str.upper() on the letters the device strings use
upper(s) ==
    LET up(ch) == CASE ch = "c" -> "C" [] ch = "p" -> "P" [] ch = "u" -> "U"
                    [] ch = "d" -> "D" [] ch = "a" -> "A" [] ch = "g" -> "G"
                    [] ch = "x" -> "X" [] OTHER -> ch
    IN  [k \in 1 .. Len(s) |-> up(s[k])]

\* str.strip(): leading and trailing whitespace removed
RECURSIVE strip(_)
strip(s) ==
    IF s = <<>> THEN s
    ELSE IF Head(s) = " " THEN strip(Tail(s))
    ELSE IF s[Len(s)] = " " THEN strip(SubSeq(s, 1, Len(s) - 1))
    ELSE s

\* str.split(":"): the parts between the colons, at least one part
RECURSIVE split(_)
split(s) ==
    IF \A k \in 1 .. Len(s) : s[k] # ":" THEN <<s>>
    ELSE LET k == CHOOSE j \in 1 .. Len(s) :
                      s[j] = ":" /\ \A h \in 1 .. j - 1 : s[h] # ":"
         IN  <<SubSeq(s, 1, k - 1)>> \o split(SubSeq(s, k + 1, Len(s)))

\* the value of a run of digits
RECURSIVE digits_value(_)
digits_value(s) ==
    IF s = <<>> THEN 0
    ELSE 10 * digits_value(SubSeq(s, 1, Len(s) - 1)) + DigitValue(s[Len(s)])

\* int(text): surrounding whitespace dropped, an optional sign, then digits
int(text) ==
    LET t    == strip(text)
        sign == IF t # <<>> /\ Head(t) \in {"+", "-"} THEN Head(t) ELSE ""
        body == IF sign = "" THEN t ELSE Tail(t)
    IN  IF body = <<>> \/ \E k \in 1 .. Len(body) : ~IsDigit(body[k])
        THEN Raise("ValueError")
        ELSE Ok(IF sign = "-" THEN 0 - digits_value(body) ELSE digits_value(body))

--------------------------------------------------------------------------
(* Device *)

\* DeviceType.from_str: cls[value.upper().strip()], a KeyError for no member
DeviceType_from_str(value) ==
    LET name == strip(upper(value))
    IN  IF name = upper(Str_cpu) THEN Ok("cpu")
        ELSE IF name = upper(Str_cuda) THEN Ok("cuda")
        ELSE Raise("KeyError")

\* torch.cuda.device_count()
cuda_device_count == avail

\* torch.cuda.is_available()
cuda_is_available == avail > 0

\* an Optional[int] that holds an integer
Some(k) == [none |-> FALSE, val |-> k]

\* Device(type, id); id is None or Some(integer)
Device(type, id) ==
    LET t   == DeviceType_from_str(type)
        id0 == IF id = None THEN 0 ELSE id.val
    IN  IF ~t.ok THEN t
        ELSE IF t.val # "cuda" THEN Ok([_type |-> t.val, _id |-> None])
        ELSE IF id0 < 0 THEN Raise("ValueError")
        ELSE IF id0 >= cuda_device_count THEN Raise("ValueError")
        ELSE Ok([_type |-> t.val, _id |-> Some(id0)])

\* the second argument int(parts[1]) is evaluated before Device is called
Device_from_str(value) ==
    LET parts == split(value)
    IN  IF Len(parts) = 1 THEN Device(parts[1], None)
        ELSE LET id == int(parts[2])
             IN  IF id.ok THEN Device(parts[1], Some(id.val)) ELSE id

\* mutant of default: CUDA is chosen without asking whether it is available
Device_default_cuda == Device(Str_cuda, None)

Device_default ==
    IF cuda_is_available THEN Device(Str_cuda, None) ELSE Device(Str_cpu, None)

--------------------------------------------------------------------------
(* Nested3DTensor: a batch of 2D tensors [L D] padded to [N L D] *)

Nested3DTensor(tensor, sizes, mask) ==
    IF tensor.shape[1] # Len(sizes)
    THEN Raise("ValueError")
    ELSE Ok([cls |-> "Nested3DTensor", _tensor |-> tensor, _sizes |-> sizes,
             _mask |-> mask])

\* torch.nn.utils.rnn.pad_sequence(sequences, batch_first=True, padding_value):
\* a [N, max_len] + trailing-dims-of-the-first tensor filled with the padding
\* value, then out[i, :length_i].copy_(sequences[i]) for every i
pad_sequence(sequences, padding_value) ==
    LET trailing == sequences[1].shape[2]
        max_len  == MaxOf([i \in 1 .. Len(sequences) |-> sequences[i].shape[1]])
        out_dims == <<Len(sequences), max_len, trailing>>
        dst(i)   == <<sequences[i].shape[1], trailing>>
    IN  IF \E i \in 1 .. Len(sequences) :
              ~Broadcastable(sequences[i].shape, dst(i))
        THEN Raise("RuntimeError")
        ELSE Ok([shape  |-> out_dims,
                 device |-> sequences[1].device,
                 at     |-> [ix \in Indices(out_dims) |->
                    IF ix[2] < sequences[ix[1] + 1].shape[1]
                    THEN BroadcastAt(sequences[ix[1] + 1], <<ix[2], ix[3]>>)
                    ELSE padding_value]])

Nested3DTensor_from_tensors(ts, pad) ==
    LET sizes  == [i \in 1 .. Len(ts) |-> ts[i].shape[1]]
        tensor == pad_sequence(ts, pad)
    IN  IF tensor.ok THEN Nested3DTensor(tensor.val, sizes, None) ELSE tensor

\* lines 150-153 of mask: all True, then mask[i, :length] = False
Nested3DTensor_new_mask(self) ==
    LET size == <<self._tensor.shape[1], self._tensor.shape[2]>>
    IN  [shape  |-> size,
         device |-> self._tensor.device,
         at     |-> [ix \in Indices(size) |-> ~(ix[2] < self._sizes[ix[1] + 1])]]

\* mutant of to_list: the padded rows are returned, the slice :length forgotten
Nested3DTensor_to_list_unsliced(self) ==
    [i \in 1 .. Len(self._sizes) |->
        LET shape == <<self._tensor.shape[2], self._tensor.shape[3]>>
        IN  [shape  |-> shape,
             device |-> self._tensor.device,
             at     |-> [ix \in Indices(shape) |->
                            self._tensor.at[<<i - 1, ix[1], ix[2]>>]]]]

Nested3DTensor_to_list(self) ==
    [i \in 1 .. Len(self._sizes) |->
        LET length == Min2(self._sizes[i], self._tensor.shape[2])
            shape  == <<length, self._tensor.shape[3]>>
        IN  [shape  |-> shape,
             device |-> self._tensor.device,
             at     |-> [ix \in Indices(shape) |->
                            self._tensor.at[<<i - 1, ix[1], ix[2]>>]]]]

--------------------------------------------------------------------------
(* Nested4DTensor: a batch of images [C H W] padded to [N C H W] *)

Nested4DTensor(tensor, sizes, mask) ==
    IF tensor.shape[1] # Len(sizes)
    THEN Raise("ValueError")
    ELSE Ok([cls |-> "Nested4DTensor", _tensor |-> tensor, _sizes |-> sizes,
             _mask |-> mask])

Nested4DTensor_from_tensors(ts, pad) ==
    LET sizes      == [i \in 1 .. Len(ts) |-> <<ts[i].shape[2], ts[i].shape[3]>>]
        max_height == MaxOf([i \in 1 .. Len(ts) |-> sizes[i][1]])
        max_width  == MaxOf([i \in 1 .. Len(ts) |-> sizes[i][2]])
        size       == <<Len(ts), ts[1].shape[1], max_height, max_width>>
        \* the shape of tensor[i, :, :height, :width]
        dst(i)     == <<size[2], sizes[i][1], sizes[i][2]>>
    IN  IF \E i \in 1 .. Len(ts) : ~Broadcastable(ts[i].shape, dst(i))
        THEN Raise("RuntimeError")
        ELSE Nested4DTensor(
                 [shape  |-> size,
                  device |-> ts[1].device,
                  at     |-> [ix \in Indices(size) |->
                     IF ix[3] < sizes[ix[1] + 1][1] /\ ix[4] < sizes[ix[1] + 1][2]
                     THEN BroadcastAt(ts[ix[1] + 1], <<ix[2], ix[3], ix[4]>>)
                     ELSE pad]],
                 sizes, None)

\* mutant of the image mask: a cell is real when inside the height or the width
Nested4DTensor_new_mask_either(self) ==
    LET size == <<self._tensor.shape[1], self._tensor.shape[3],
                  self._tensor.shape[4]>>
    IN  [shape  |-> size,
         device |-> self._tensor.device,
         at     |-> [ix \in Indices(size) |->
                        ~(\/ ix[2] < self._sizes[ix[1] + 1][1]
                          \/ ix[3] < self._sizes[ix[1] + 1][2])]]

\* lines 237-240 of mask: all True, then mask[i, :height, :width] = False
Nested4DTensor_new_mask(self) ==
    LET size == <<self._tensor.shape[1], self._tensor.shape[3],
                  self._tensor.shape[4]>>
    IN  [shape  |-> size,
         device |-> self._tensor.device,
         at     |-> [ix \in Indices(size) |->
                        ~(/\ ix[2] < self._sizes[ix[1] + 1][1]
                          /\ ix[3] < self._sizes[ix[1] + 1][2])]]

Nested4DTensor_to_list(self) ==
    [i \in 1 .. Len(self._sizes) |->
        LET height == Min2(self._sizes[i][1], self._tensor.shape[3])
            width  == Min2(self._sizes[i][2], self._tensor.shape[4])
            shape  == <<self._tensor.shape[2], height, width>>
        IN  [shape  |-> shape,
             device |-> self._tensor.device,
             at     |-> [ix \in Indices(shape) |->
                            self._tensor.at[<<i - 1, ix[1], ix[2], ix[3]>>]]]]

\* tensor.flatten(2).transpose(1, 2): [N C H W] -> [N C HW] -> [N HW C]
flatten2_transpose12(t) ==
    LET W    == t.shape[4]
        size == <<t.shape[1], t.shape[3] * t.shape[4], t.shape[2]>>
    IN  [shape  |-> size,
         device |-> t.device,
         at     |-> [ix \in Indices(size) |->
                        t.at[<<ix[1], ix[3], ix[2] \div W, ix[2] % W>>]]]

\* mutant of mask.flatten(1): the cells are laid out column by column
flatten1_column_major(m) ==
    LET H    == m.shape[2]
        size == <<m.shape[1], m.shape[2] * m.shape[3]>>
    IN  [shape  |-> size,
         device |-> m.device,
         at     |-> [ix \in Indices(size) |->
                        m.at[<<ix[1], ix[2] % H, ix[2] \div H>>]]]

\* mask.flatten(1): [N H W] -> [N HW]
flatten1(m) ==
    LET W    == m.shape[3]
        size == <<m.shape[1], m.shape[2] * m.shape[3]>>
    IN  [shape  |-> size,
         device |-> m.device,
         at     |-> [ix \in Indices(size) |->
                        m.at[<<ix[1], ix[2] \div W, ix[2] % W>>]]]

Nested4DTensor_flatten(self) ==
    LET tensor == flatten2_transpose12(self._tensor)
        sizes  == [i \in 1 .. Len(self._sizes) |->
                      self._sizes[i][1] * self._sizes[i][2]]
        mask   == IF self._mask # None THEN flatten1(self._mask) ELSE None
    IN  Nested3DTensor(tensor, sizes, mask)

--------------------------------------------------------------------------
(* Methods of both classes *)

\* the value the mask property returns: the cached mask, or a new one
mask_value(self) ==
    IF self._mask # None THEN self._mask
    ELSE IF self.cls = "Nested3DTensor" THEN Nested3DTensor_new_mask(self)
    ELSE Nested4DTensor_new_mask(self)

\* mutant of the store: the computed mask is returned but not kept
store_mask_skipped(self, mask) == self

\* self._mask = mask
store_mask(self, mask) == [self EXCEPT !._mask = mask]

\* lines 150-153 and 237-240: the mask a call computes
new_mask(self) ==
    IF self.cls = "Nested3DTensor" THEN Nested3DTensor_new_mask(self)
    ELSE Nested4DTensor_new_mask(self)

\* mutant of to: the cached mask is not handed to the new container
to_without_mask(self, device) ==
    LET tensor == TensorTo(self._tensor, device)
    IN  IF self.cls = "Nested3DTensor"
        THEN Nested3DTensor(tensor, self._sizes, None)
        ELSE Nested4DTensor(tensor, self._sizes, None)

\* to(device) of either class
to(self, device) ==
    LET tensor == TensorTo(self._tensor, device)
        mask   == IF self._mask # None THEN TensorTo(self._mask, device) ELSE None
    IN  IF self.cls = "Nested3DTensor"
        THEN Nested3DTensor(tensor, self._sizes, mask)
        ELSE Nested4DTensor(tensor, self._sizes, mask)

to_list(self) ==
    IF self.cls = "Nested3DTensor" THEN Nested3DTensor_to_list(self)
    ELSE Nested4DTensor_to_list(self)

--------------------------------------------------------------------------
(* The batches handed to from_tensors *)

\* sample i of a batch: cells that differ along every axis; some equal a pad value
Sample(i, shape) ==
    [shape  |-> shape,
     device |-> "cpu",
     at     |-> [ix \in Indices(shape) |->
                    (i - 1) + ix[1] + 2 * ix[2]
                        + (IF Len(shape) = 3 THEN 4 * ix[3] ELSE 0)]]

\* lists of n >= 1 sequence shapes (L, D) inside a box n * L * D <= MaxNumel
SequenceShapes ==
    UNION { [1 .. b[1] -> (1 .. b[2]) \X (1 .. b[3])] :
            b \in { c \in (1 .. MaxNumel) \X (1 .. MaxNumel) \X (1 .. MaxNumel) :
                    c[1] * c[2] * c[3] <= MaxNumel } }

\* lists of n >= 1 image shapes (C, H, W) inside a box n * C * H * W <= MaxNumel
ImageShapes ==
    UNION { [1 .. b[1] -> (1 .. b[2]) \X (1 .. b[3]) \X (1 .. b[4])] :
            b \in { c \in (1 .. MaxNumel) \X (1 .. MaxNumel) \X (1 .. MaxNumel)
                              \X (1 .. MaxNumel) :
                    c[1] * c[2] * c[3] * c[4] <= MaxNumel } }

Batches ==
    { [i \in 1 .. Len(sl) |-> Sample(i, sl[i])] : sl \in SequenceShapes \cup ImageShapes }

PadValues == 0 .. MaxPad

\* the torch devices a container is moved to
TorchDevices == {"cpu", "cuda:0"}

--------------------------------------------------------------------------
(* The containers' state machine *)

Call(op, self, arg, ret, cached) ==
    [op |-> op, self |-> self, arg |-> arg, ret |-> ret, cached |-> cached]

NoCall == Call("none", "class", None, None, FALSE)

Receivers == {"batch", "derived"}

Obj(w) == IF w = "batch" THEN batch ELSE derived

Threads == 1 .. MaxThreads

\* no thread has entered the mask property yet
NoThreads ==
    [t \in Threads |-> [pc |-> "idle", mask |-> None, computed |-> FALSE, ret |-> None]]

Init ==
    /\ tensors \in Batches
    /\ pad_value \in PadValues
    /\ batch = None
    /\ derived = None
    /\ origin = None
    /\ last = NoCall
    /\ threads = NoThreads
    /\ owner = 0
    /\ avail = MaxDevices

\* batch = Nested3DTensor.from_tensors(tensors, pad_value)
FromTensors3D ==
    /\ batch = None
    /\ Len(tensors[1].shape) = 2
    /\ LET r == Nested3DTensor_from_tensors(tensors, pad_value)
       IN  /\ batch' = IF r.ok THEN r.val ELSE None
           /\ last' = Call("from_tensors", "class", None, r, FALSE)
    /\ UNCHANGED <<tensors, pad_value, derived, origin, avail, threads, owner>>

\* batch = Nested4DTensor.from_tensors(tensors, pad_value)
FromTensors4D ==
    /\ batch = None
    /\ Len(tensors[1].shape) = 3
    /\ LET r == Nested4DTensor_from_tensors(tensors, pad_value)
       IN  /\ batch' = IF r.ok THEN r.val ELSE None
           /\ last' = Call("from_tensors", "class", None, r, FALSE)
    /\ UNCHANGED <<tensors, pad_value, derived, origin, avail, threads, owner>>

\* Obj(w).mask
Mask(w) ==
    /\ Obj(w) # None
    /\ LET self == Obj(w)
           mask == mask_value(self)
           new  == IF self._mask # None THEN self ELSE store_mask(self, mask)
       IN  /\ batch' = IF w = "batch" THEN new ELSE batch
           /\ derived' = IF w = "derived" THEN new ELSE derived
           /\ last' = Call("mask", w, None, mask, self._mask # None)
    /\ UNCHANGED <<tensors, pad_value, origin, avail, threads, owner>>

\* derived = Obj(w).to(device)
To(w, device) ==
    /\ Obj(w) # None
    /\ LET r == to(Obj(w), device)
       IN  /\ r.ok
           /\ derived' = r.val
           /\ origin' = [op |-> "to", src |-> w]
           /\ last' = Call("to", w, device, r, FALSE)
    /\ UNCHANGED <<tensors, pad_value, batch, avail, threads, owner>>

\* Obj(w).to_list()
ToList(w) ==
    /\ Obj(w) # None
    /\ last' = Call("to_list", w, None, to_list(Obj(w)), FALSE)
    /\ UNCHANGED <<tensors, pad_value, batch, derived, origin, avail, threads, owner>>

\* derived = Obj(w).flatten()
Flatten(w) ==
    /\ Obj(w) # None
    /\ Obj(w).cls = "Nested4DTensor"
    /\ LET r == Nested4DTensor_flatten(Obj(w))
       IN  /\ r.ok
           /\ derived' = r.val
           /\ origin' = [op |-> "flatten", src |-> w]
           /\ last' = Call("flatten", w, None, r, FALSE)
    /\ UNCHANGED <<tensors, pad_value, batch, avail, threads, owner>>

Next ==
    \/ FromTensors3D
    \/ FromTensors4D
    \/ \E w \in Receivers : Mask(w)
    \/ \E w \in Receivers, device \in TorchDevices : To(w, device)
    \/ \E w \in Receivers : ToList(w)
    \/ \E w \in Receivers : Flatten(w)

Spec == Init /\ [][Next]_vars

--------------------------------------------------------------------------
(* The device selector's state machine *)

\* the texts before the colon of a device string
KindTexts ==
    { Str_cpu, Str_cuda, <<"C", "P", "U">>, <<" ", "c", "u", "d", "a">>,
      <<"g", "p", "u">>, <<>> }

\* the texts after the colon: str(k) for k in 0..MaxDevices, and other texts
IndexTexts ==
    { str_int(k) : k \in 0 .. MaxDevices }
        \cup { <<>>, <<"-", "1">>, <<"x">>, <<"+", "1">>, <<" ", "0">>,
               <<"0", "1">>, <<"1", ":", "0">> }

DeviceStrings ==
    KindTexts \cup { kind \o <<":">> \o index : kind \in KindTexts, index \in IndexTexts }

InitDevice ==
    /\ avail \in 0 .. MaxDevices
    /\ tensors = <<>>
    /\ pad_value = 0
    /\ batch = None
    /\ derived = None
    /\ origin = None
    /\ last = NoCall
    /\ threads = NoThreads
    /\ owner = 0

\* Device.from_str(value)
FromStr(value) ==
    /\ last' = Call("Device.from_str", "class", value, Device_from_str(value), FALSE)
    /\ UNCHANGED <<tensors, pad_value, batch, derived, origin, avail, threads, owner>>

\* Device.default()
Default ==
    /\ last' = Call("Device.default", "class", None, Device_default, FALSE)
    /\ UNCHANGED <<tensors, pad_value, batch, derived, origin, avail, threads, owner>>

NextDevice ==
    \/ \E value \in DeviceStrings : FromStr(value)
    \/ Default

SpecDevice == InitDevice /\ [][NextDevice]_vars

--------------------------------------------------------------------------
(* Threads reading the mask of one container. The property takes no lock;  *)
(* a thread switch can fall between its statements.                        *)

\* thread t reads batch.mask: the property is entered
MaskEnter(t) ==
    /\ batch # None
    /\ threads[t].pc = "idle"
    /\ threads' = [threads EXCEPT ![t].pc = "check"]
    /\ UNCHANGED <<tensors, pad_value, batch, derived, origin, last, avail, owner>>

\* lines 147-148: if self._mask is not None: return self._mask
MaskCheck(t) ==
    /\ threads[t].pc = "check"
    /\ threads' = IF batch._mask # None
                  THEN [threads EXCEPT ![t].pc = "done",
                                       ![t].ret = [by |-> owner, value |-> batch._mask]]
                  ELSE [threads EXCEPT ![t].pc = "compute"]
    /\ UNCHANGED <<tensors, pad_value, batch, derived, origin, last, avail, owner>>

\* lines 150-153: a new mask tensor is built from the sizes
MaskCompute(t) ==
    /\ threads[t].pc = "compute"
    /\ threads' = [threads EXCEPT ![t].pc = "store",
                                  ![t].mask = new_mask(batch),
                                  ![t].computed = TRUE]
    /\ UNCHANGED <<tensors, pad_value, batch, derived, origin, last, avail, owner>>

\* line 155: self._mask = mask
MaskStore(t) ==
    /\ threads[t].pc = "store"
    /\ batch' = store_mask(batch, threads[t].mask)
    /\ owner' = t
    /\ threads' = [threads EXCEPT ![t].pc = "return"]
    /\ UNCHANGED <<tensors, pad_value, derived, origin, last, avail>>

\* line 156: return mask, the thread's own tensor
MaskReturn(t) ==
    /\ threads[t].pc = "return"
    /\ threads' = [threads EXCEPT ![t].pc = "done",
                                  ![t].ret = [by |-> t, value |-> threads[t].mask]]
    /\ UNCHANGED <<tensors, pad_value, batch, derived, origin, last, avail, owner>>

NextMask ==
    \/ FromTensors3D
    \/ FromTensors4D
    \/ \E t \in Threads : MaskEnter(t)
    \/ \E t \in Threads : MaskCheck(t)
    \/ \E t \in Threads : MaskCompute(t)
    \/ \E t \in Threads : MaskStore(t)
    \/ \E t \in Threads : MaskReturn(t)

SpecMask == Init /\ [][NextMask]_vars

--------------------------------------------------------------------------
(* Properties of the containers, checked under Spec *)

\* the samples agree on the fixed dimension: D of [L D], C of [C H W]
SameFixedDim ==
    \A i \in 1 .. Len(tensors) :
        IF Len(tensors[1].shape) = 2
        THEN tensors[i].shape[2] = tensors[1].shape[2]
        ELSE tensors[i].shape[1] = tensors[1].shape[1]

\* C1: round trip. When the samples share the fixed dimension, from_tensors
\* succeeds for every pad_value and to_list() of the container it returned
\* gives back len(tensors) samples, each equal to the input cell for cell.
C1_RoundTrip ==
    /\ (last.op = "from_tensors" /\ SameFixedDim) => (last.ret.ok /\ batch # None)
    /\ (last.op = "to_list" /\ last.self = "batch" /\ SameFixedDim) =>
           /\ Len(last.ret) = Len(tensors)
           /\ \A i \in 1 .. Len(tensors) :
                  /\ last.ret[i].shape = tensors[i].shape
                  /\ \A ix \in Indices(tensors[i].shape) :
                         last.ret[i].at[ix] = tensors[i].at[ix]
           /\ last.ret = tensors

\* C1 witness: a batch with padding, and a real cell equal to pad_value, unbatched
C1_Witness ==
    /\ last.op = "to_list" /\ last.self = "batch" /\ SameFixedDim
    /\ Len(tensors) >= 2
    /\ \E i \in 1 .. Len(tensors) : tensors[i].shape # tensors[1].shape
    /\ \E i \in 1 .. Len(tensors) : \E ix \in Indices(tensors[i].shape) :
           tensors[i].at[ix] = pad_value

\* C2: mask correctness. For the container from_tensors returned and for any
\* container made from it by to(), mask() has shape [N, L_max] with
\* mask[i, j] = (j >= lengths[i]) (sequences), and shape [N, H_max, W_max] with
\* mask[i, y, x] = (y >= height_i or x >= width_i) (images).
C2_MaskCorrect ==
    (last.op = "mask" /\ Obj(last.self).cls = batch.cls) =>
        LET o == Obj(last.self)
            m == last.ret
            N == Len(tensors)
        IN  IF o.cls = "Nested3DTensor"
            THEN /\ m.shape = <<N, MaxOf([i \in 1 .. N |-> tensors[i].shape[1]])>>
                 /\ \A i \in 0 .. N - 1 : o._sizes[i + 1] = tensors[i + 1].shape[1]
                 /\ \A i \in 0 .. m.shape[1] - 1, j \in 0 .. m.shape[2] - 1 :
                        m.at[<<i, j>>] = (j >= o._sizes[i + 1])
            ELSE /\ m.shape = <<N, MaxOf([i \in 1 .. N |-> tensors[i].shape[2]]),
                                MaxOf([i \in 1 .. N |-> tensors[i].shape[3]])>>
                 /\ \A i \in 0 .. N - 1 :
                        o._sizes[i + 1] = <<tensors[i + 1].shape[2], tensors[i + 1].shape[3]>>
                 /\ \A i \in 0 .. m.shape[1] - 1, y \in 0 .. m.shape[2] - 1,
                       x \in 0 .. m.shape[3] - 1 :
                        m.at[<<i, y, x>>] =
                            (y >= o._sizes[i + 1][1] \/ x >= o._sizes[i + 1][2])

\* C2 witness: mask() of a moved image batch in which a sample is narrower
\* and another shorter than the canvas
C2_Witness ==
    /\ last.op = "mask" /\ last.self = "derived"
    /\ derived.cls = "Nested4DTensor"
    /\ \E i \in 1 .. Len(derived._sizes) : derived._sizes[i][1] < last.ret.shape[2]
    /\ \E i \in 1 .. Len(derived._sizes) : derived._sizes[i][2] < last.ret.shape[3]

\* C3: flatten exactness (the claim as stated). With R = S.flatten() for the
\* image batch S that from_tensors returned, R.mask()[i, y*W_max + x] equals
\* S.mask()[i, y, x] for every cell, whether or not S.mask() was called before.
C3_FlattenExact ==
    (/\ last.op = "mask" /\ last.self = "derived"
     /\ origin.op = "flatten" /\ origin.src = "batch") =>
        LET S == mask_value(batch)
        IN  \A i \in 0 .. S.shape[1] - 1, y \in 0 .. S.shape[2] - 1,
              x \in 0 .. S.shape[3] - 1 :
                last.ret.at[<<i, y * S.shape[3] + x>>] = S.at[<<i, y, x>>]

\* whether `derived` is a sequence batch that came out of flatten()
IsFlattened ==
    /\ derived # None /\ batch # None
    /\ derived.cls = "Nested3DTensor" /\ batch.cls = "Nested4DTensor"

\* C4: flatten correctness. S.flatten() returns a sequence batch R with data
\* [N, H_max*W_max, C], R.data[n, y*W_max + x, c] = S.data[n, c, y, x],
\* lengths[i] = h_i * w_i; R's mask is cached exactly when S's was, and is
\* then the row-major flattening of S's mask.
C4_FlattenCorrect ==
    [][(last'.op = "flatten" /\ vars' # vars) =>
        LET S == Obj(last'.self)
            R == derived'
            N == S._tensor.shape[1]
            C == S._tensor.shape[2]
            H == S._tensor.shape[3]
            W == S._tensor.shape[4]
        IN  /\ last'.ret = Ok(R)
            /\ R.cls = "Nested3DTensor"
            /\ R._tensor.shape = <<N, H * W, C>>
            /\ \A n \in 0 .. N - 1, c \in 0 .. C - 1, y \in 0 .. H - 1, x \in 0 .. W - 1 :
                   R._tensor.at[<<n, y * W + x, c>>] = S._tensor.at[<<n, c, y, x>>]
            /\ Len(R._sizes) = N
            /\ \A i \in 1 .. N : R._sizes[i] = S._sizes[i][1] * S._sizes[i][2]
            /\ (S._mask = None) = (R._mask = None)
            /\ S._mask # None =>
                   /\ R._mask.shape = <<N, H * W>>
                   /\ \A n \in 0 .. N - 1, y \in 0 .. H - 1, x \in 0 .. W - 1 :
                          R._mask.at[<<n, y * W + x>>] = S._mask.at[<<n, y, x>>]
      ]_vars

\* C4 witness: flatten() of an image batch over a canvas of at least 2 x 2
\* whose mask was cached, with a narrower sample
C4_Witness ==
    /\ last.op = "flatten" /\ IsFlattened
    /\ derived._mask # None
    /\ batch._tensor.shape[3] >= 2 /\ batch._tensor.shape[4] >= 2
    /\ \E i \in 1 .. Len(batch._sizes) : batch._sizes[i][2] < batch._tensor.shape[4]

ObjNext(w) == IF w = "batch" THEN batch' ELSE derived'

\* C5: the mask cache is filled once and never emptied. On one instance, a
\* mask() call leaves the mask cached and returns the cached value; a cached
\* mask is never dropped or changed by a later mask(), to(), to_list() or
\* flatten(); and no call changes the instance's data or sizes.
C5_MaskCacheOneWay ==
    [][\A w \in Receivers :
        \* `derived` names a new instance after to() and flatten()
        (Obj(w) # None /\ (w = "batch" \/ last'.op \notin {"to", "flatten"})) =>
            /\ ObjNext(w)._tensor = Obj(w)._tensor
            /\ ObjNext(w)._sizes = Obj(w)._sizes
            /\ Obj(w)._mask # None => ObjNext(w)._mask = Obj(w)._mask
            /\ (last'.op = "mask" /\ last'.self = w) =>
                   /\ ObjNext(w)._mask # None
                   /\ last'.ret = ObjNext(w)._mask
      ]_vars

\* C5 witness: a mask() call answered from the cache, with a padded cell
C5_Witness ==
    /\ last.op = "mask" /\ last.cached
    /\ \E ix \in Indices(last.ret.shape) : last.ret.at[ix]
    /\ Obj(last.self)._mask = last.ret

\* C6: to(device) is pure. It returns a new container of the same class on
\* `device` with the receiver's cells and sizes, whose mask is cached exactly
\* when the receiver's is (with the same cells); the receiver keeps its data,
\* sizes, mask and cache state.
C6_ToPure ==
    [][(last'.op = "to" /\ vars' # vars) =>
        LET b == Obj(last'.self)
            n == derived'
        IN  /\ last'.ret = Ok(n)
            /\ n.cls = b.cls
            /\ SameCells(n._tensor, b._tensor)
            /\ n._tensor.device = last'.arg
            /\ n._sizes = b._sizes
            /\ (n._mask = None) = (b._mask = None)
            /\ b._mask # None =>
                   (SameCells(n._mask, b._mask) /\ n._mask.device = last'.arg)
            \* the receiver, where it is still referenced after the call
            /\ last'.self = "batch" => batch' = batch
      ]_vars

\* C6 witness: a batch with a cached mask moved to the CUDA device
C6_Witness ==
    /\ last.op = "to" /\ last.self = "batch" /\ last.arg = "cuda:0"
    /\ batch._mask # None /\ derived._mask # None
    /\ batch._tensor.device = "cpu"

\* C9: shape mismatch (the claim as stated). When the samples do not share
\* the fixed dimension, from_tensors fails and no container is built.
C9_ShapeMismatch ==
    (last.op = "from_tensors" /\ ~SameFixedDim) => (~last.ret.ok /\ batch = None)

\* C10: a flattened batch obeys the sequence mask rule (the claim as stated).
\* For every sequence batch that came out of flatten(), mask()[i, j] is TRUE
\* iff j >= lengths[i] with lengths[i] = h_i * w_i, whether the mask was
\* carried over or computed on the result.
C10_FlattenedMaskRule ==
    (last.op = "mask" /\ last.self = "derived" /\ IsFlattened) =>
        /\ last.ret.shape = <<derived._tensor.shape[1], derived._tensor.shape[2]>>
        /\ \A i \in 0 .. last.ret.shape[1] - 1, j \in 0 .. last.ret.shape[2] - 1 :
               last.ret.at[<<i, j>>] = (j >= derived._sizes[i + 1])

\* C10, second part (the claim as stated): to_list() of a flattened batch
\* gives for sample i its h_i * w_i real cells, in row-major order.
C10_FlattenedToList ==
    (/\ last.op = "to_list" /\ last.self = "derived" /\ IsFlattened
     /\ SameFixedDim) =>
        \A i \in 1 .. Len(tensors) :
            LET h == tensors[i].shape[2]
                w == tensors[i].shape[3]
            IN  /\ last.ret[i].shape = <<h * w, tensors[i].shape[1]>>
                /\ \A c \in 0 .. tensors[i].shape[1] - 1, y \in 0 .. h - 1,
                      x \in 0 .. w - 1 :
                       last.ret[i].at[<<y * w + x, c>>] = tensors[i].at[<<c, y, x>>]

\* C10: both parts
C10_FlattenedIsSequenceBatch == C10_FlattenedMaskRule /\ C10_FlattenedToList

--------------------------------------------------------------------------
(* Properties of the device selector, checked under SpecDevice *)

\* the exception the Device code raises for a device it rejects (lines 62, 64)
InvalidContext == "ValueError"

\* C7: context parsing (the claim as stated). "cpu" gives the CPU device
\* without an index; "cuda" gives CUDA device 0 and "cuda:k" CUDA device k,
\* exactly when k < device_count; a string with an unknown kind, or with an
\* index that is not a non-negative integer or is out of range, fails; and
\* every failure is of the one kind InvalidContext.
C7_ContextParsing ==
    last.op = "Device.from_str" =>
        LET value == last.arg
            A     == avail
            parts == split(value)
            cpu   == Ok([_type |-> "cpu", _id |-> None])
            cuda(k) == Ok([_type |-> "cuda", _id |-> Some(k)])
        IN  /\ value = Str_cpu => last.ret = cpu
            /\ value = Str_cuda => IF 0 < A THEN last.ret = cuda(0) ELSE ~last.ret.ok
            /\ \A k \in 0 .. MaxDevices :
                   value = Str_cuda \o <<":">> \o str_int(k) =>
                       IF k < A THEN last.ret = cuda(k) ELSE ~last.ret.ok
            \* unknown kind
            /\ ~DeviceType_from_str(parts[1]).ok => ~last.ret.ok
            \* index that is not a non-negative integer
            /\ (Len(parts) > 1 /\ (~int(parts[2]).ok \/ int(parts[2]).val < 0)) =>
                   ~last.ret.ok
            /\ ~last.ret.ok => last.ret.err = InvalidContext

\* C8: default(). For every device count A >= 0 the call returns a device:
\* CUDA device 0 when A >= 1, the CPU device when A = 0; nothing but A
\* decides the result.
C8_Default ==
    last.op = "Device.default" =>
        last.ret = IF avail >= 1
                   THEN Ok([_type |-> "cuda", _id |-> Some(0)])
                   ELSE Ok([_type |-> "cpu", _id |-> None])

\* C8 witness: default() on a host with CUDA devices
C8_Witness ==
    last.op = "Device.default" /\ avail >= 1 /\ last.ret.ok /\ last.ret.val._type = "cuda"

--------------------------------------------------------------------------
(* Properties of concurrent mask reads, checked under SpecMask *)

\* the threads that built a mask tensor
Computers == {t \in Threads : threads[t].computed}

\* C11: concurrent mask() (the claim as stated). However the check, compute
\* and store steps of the callers interleave, at most one mask is computed,
\* and every caller that returned got the tensor that is stored in the instance.
C11_ComputeOnce ==
    /\ Cardinality(Computers) <= 1
    /\ \A t \in Threads :
           threads[t].pc = "done" =>
               /\ threads[t].ret.value = batch._mask
               /\ threads[t].ret.by = owner

====
